---- MODULE Spec2Model ----
(***************************************************************************)
(* Contact directory of UreshiiSushi/PyWeb_HW14tests: the repository       *)
(* functions of src/repository/contacts.py over the contacts table of      *)
(* src/database/models.py.                                                 *)
(*                                                                         *)
(* The table is a sequence of rows in insertion order; a query without     *)
(* ORDER BY scans it in that order.  A user is represented by its id.      *)
(* Python's None is the string None in a string-typed place and the        *)
(* record RNone as a function result.                                      *)
(***************************************************************************)
EXTENDS Integers, Sequences, FiniteSets, TLC

VARIABLES
    db,         \* [contacts: the rows of table "contacts", next_id: the id sequence]
    today,      \* the value date.today() returns
    call,       \* the last repository call: its name and arguments
    ret,        \* what that call returned
    session,    \* per owner: the call in flight between its query and its commit,
                \* and what the owner's last call returned
    alone       \* per owner: the table and result of the owner's calls run with
                \* no other owner calling

vars == <<db, today, call, ret, session, alone>>

-----------------------------------------------------------------------------
(* Bounds of the model *)

\* contacts ever created: ids are 1..MaxContacts
MaxContacts == 2
\* users.id of the two callers
Users == {1, 2}

-----------------------------------------------------------------------------
(* Python values *)

None == "<None>"

\* bool(v) of an Optional[str]
Truthy(v) == v # None /\ v # ""

RNone == [kind |-> "None"]
RContact(c) == [kind |-> "Contact", val |-> c]
RList(s) == [kind |-> "list", val |-> s]
\* datetime(...) raised ValueError: the call returned nothing
RValueError == [kind |-> "ValueError"]

-----------------------------------------------------------------------------
(* datetime.date *)

Date(y, m, d) == [year |-> y, month |-> m, day |-> d]

IsLeap(y) == (y % 4 = 0 /\ y % 100 # 0) \/ y % 400 = 0

DaysInMonth(y, m) ==
    IF m = 2 THEN (IF IsLeap(y) THEN 29 ELSE 28)
    ELSE IF m \in {4, 6, 9, 11} THEN 30 ELSE 31

\* the constructor taking February 29 in any year
ValidDateAnyYear(y, m, d) == m \in 1..12 /\ d >= 1 /\ d <= DaysInMonth(2000, m)

\* the date constructor accepts (y, m, d); otherwise it raises ValueError
ValidDate(y, m, d) == m \in 1..12 /\ d >= 1 /\ d <= DaysInMonth(y, m)

\* a <= b on dates
DateLE(a, b) ==
    \/ a.year < b.year
    \/ a.year = b.year /\ a.month < b.month
    \/ a.year = b.year /\ a.month = b.month /\ a.day <= b.day

NextDay(a) ==
    IF a.day < DaysInMonth(a.year, a.month) THEN Date(a.year, a.month, a.day + 1)
    ELSE IF a.month < 12 THEN Date(a.year, a.month + 1, 1)
    ELSE Date(a.year + 1, 1, 1)

\* a + timedelta(days=n)
RECURSIVE AddDays(_, _)
AddDays(a, n) == IF n = 0 THEN a ELSE AddDays(NextDay(a), n - 1)

-----------------------------------------------------------------------------
(* The store: Query.filter(...).all() and .first() *)

\* .filter(P).all() is SelectSeq(rows, P): the rows satisfying P, in table order

First(s) == IF s = <<>> THEN RNone ELSE RContact(s[1])

Ids(s) == {s[i].id : i \in 1..Len(s)}

-----------------------------------------------------------------------------
(* src/repository/contacts.py *)

\* create_contact with the id taken from the number of rows
create_contact_id_by_count(contact, user, d) ==
    LET new_contact == [id          |-> Len(d.contacts) + 1,
                        name        |-> contact.name,
                        lastname    |-> contact.lastname,
                        email       |-> contact.email,
                        phone       |-> contact.phone,
                        born_date   |-> contact.born_date,
                        description |-> contact.description,
                        user_id     |-> user]
    IN [db  |-> [contacts |-> Append(d.contacts, new_contact),
                 next_id  |-> d.next_id + 1],
        ret |-> RContact(new_contact)]

\* create_contact with the family name taken from the given name
create_contact_name_twice(contact, user, d) ==
    LET new_contact == [id          |-> d.next_id,
                        name        |-> contact.name,
                        lastname    |-> contact.name,
                        email       |-> contact.email,
                        phone       |-> contact.phone,
                        born_date   |-> contact.born_date,
                        description |-> contact.description,
                        user_id     |-> user]
    IN [db  |-> [contacts |-> Append(d.contacts, new_contact),
                 next_id  |-> d.next_id + 1],
        ret |-> RContact(new_contact)]

\* Contact(...); db.add; db.commit; db.refresh: the row gets the next id
create_contact(contact, user, d) ==
    LET new_contact == [id          |-> d.next_id,
                        name        |-> contact.name,
                        lastname    |-> contact.lastname,
                        email       |-> contact.email,
                        phone       |-> contact.phone,
                        born_date   |-> contact.born_date,
                        description |-> contact.description,
                        user_id     |-> user]
    IN [db  |-> [contacts |-> Append(d.contacts, new_contact),
                 next_id  |-> d.next_id + 1],
        ret |-> RContact(new_contact)]

\* get_contacts with the owner filter left out
get_contacts_of_anyone(user, d) == RList(d.contacts)

get_contacts(user, d) ==
    LET Mine(c) == c.user_id = user
    IN RList(SelectSeq(d.contacts, Mine))

\* get_contact with the owner left out of the filter
get_contact_any_owner(contact_id, user, d) ==
    LET Hit(c) == c.id = contact_id
    IN First(SelectSeq(d.contacts, Hit))

get_contact(contact_id, user, d) ==
    LET Hit(c) == c.id = contact_id /\ c.user_id = user
    IN First(SelectSeq(d.contacts, Hit))

\* the rewrite never reaches the table (no commit)
ReplaceRowNotCommitted(s, row) == s

\* the row with target's primary key is rewritten in place
ReplaceRow(s, row) == [i \in 1..Len(s) |-> IF s[i].id = row.id THEN row ELSE s[i]]

\* the DateTime column's reading of the text the route passes as born_date
StrToDate(s) ==
    CASE s = "1990-06-03" -> Date(1990, 6, 3)
      [] s = "1990-06-10" -> Date(1990, 6, 10)
      [] s = "2000-02-29" -> Date(2000, 2, 29)

\* update_contact with the name tested for presence (is not None), not truthiness
update_contact_name_if_present(contact_id, user, d, name, lastname, email, phone, born_date, description) ==
    LET Hit(c) == c.id = contact_id /\ c.user_id = user
        found == First(SelectSeq(d.contacts, Hit))
    IN
    IF found = RNone THEN [db |-> d, ret |-> RNone]
    ELSE
        LET t0 == found.val
            t1 == IF name # None THEN [t0 EXCEPT !.name = name] ELSE t0
            t2 == IF Truthy(lastname) THEN [t1 EXCEPT !.lastname = lastname] ELSE t1
            t3 == IF Truthy(email) THEN [t2 EXCEPT !.email = email] ELSE t2
            t4 == IF Truthy(phone) THEN [t3 EXCEPT !.phone = phone] ELSE t3
            t5 == IF Truthy(born_date)
                  THEN [t4 EXCEPT !.born_date = StrToDate(born_date)] ELSE t4
            target_contact == IF Truthy(description)
                              THEN [t5 EXCEPT !.description = description] ELSE t5
        IN [db  |-> [d EXCEPT !.contacts = ReplaceRow(d.contacts, target_contact)],
            ret |-> RContact(target_contact)]

update_contact(contact_id, user, d, name, lastname, email, phone, born_date, description) ==
    LET Hit(c) == c.id = contact_id /\ c.user_id = user
        found == First(SelectSeq(d.contacts, Hit))
    IN
    IF found = RNone THEN [db |-> d, ret |-> RNone]
    ELSE
        LET t0 == found.val
            t1 == IF Truthy(name) THEN [t0 EXCEPT !.name = name] ELSE t0
            t2 == IF Truthy(lastname) THEN [t1 EXCEPT !.lastname = lastname] ELSE t1
            t3 == IF Truthy(email) THEN [t2 EXCEPT !.email = email] ELSE t2
            t4 == IF Truthy(phone) THEN [t3 EXCEPT !.phone = phone] ELSE t3
            t5 == IF Truthy(born_date)
                  THEN [t4 EXCEPT !.born_date = StrToDate(born_date)] ELSE t4
            target_contact == IF Truthy(description)
                              THEN [t5 EXCEPT !.description = description] ELSE t5
        IN [db  |-> [d EXCEPT !.contacts = ReplaceRow(d.contacts, target_contact)],
            ret |-> RContact(target_contact)]

\* every row of item's owner is removed
DeleteRowsOfOwner(s, item) ==
    LET Keep(c) == c.user_id # item.user_id IN SelectSeq(s, Keep)

\* db.delete(item): the row with item's primary key is removed
DeleteRow(s, item) == LET Keep(c) == c.id # item.id IN SelectSeq(s, Keep)

\* delete_contact with the owner left out of the filter
delete_contact_any_owner(contact_id, user, d) ==
    LET Hit(c) == c.id = contact_id
        item == First(SelectSeq(d.contacts, Hit))
    IN
    IF item # RNone
    THEN [db  |-> [d EXCEPT !.contacts = DeleteRow(d.contacts, item.val)],
          ret |-> item]
    ELSE [db |-> d, ret |-> RNone]

delete_contact(contact_id, user, d) ==
    LET Hit(c) == c.id = contact_id /\ c.user_id = user
        item == First(SelectSeq(d.contacts, Hit))
    IN
    IF item # RNone
    THEN [db  |-> [d EXCEPT !.contacts = DeleteRow(d.contacts, item.val)],
          ret |-> item]
    ELSE [db |-> d, ret |-> RNone]


\* the query of update_contact with the owner left out of the filter
update_contact_query_any_owner(contact_id, user, d) ==
    LET Hit(c) == c.id = contact_id
    IN First(SelectSeq(d.contacts, Hit))

\* the query of update_contact: the row target_contact is bound to, or None
update_contact_query(contact_id, user, d) ==
    LET Hit(c) == c.id = contact_id /\ c.user_id = user
    IN First(SelectSeq(d.contacts, Hit))

\* the assignments to the loaded row target and the commit: the row with
\* target's primary key is rewritten, whatever the table holds by then
update_contact_commit(target, d, name, lastname, email, phone, born_date, description) ==
    LET t1 == IF Truthy(name) THEN [target EXCEPT !.name = name] ELSE target
        t2 == IF Truthy(lastname) THEN [t1 EXCEPT !.lastname = lastname] ELSE t1
        t3 == IF Truthy(email) THEN [t2 EXCEPT !.email = email] ELSE t2
        t4 == IF Truthy(phone) THEN [t3 EXCEPT !.phone = phone] ELSE t3
        t5 == IF Truthy(born_date)
              THEN [t4 EXCEPT !.born_date = StrToDate(born_date)] ELSE t4
        t6 == IF Truthy(description)
              THEN [t5 EXCEPT !.description = description] ELSE t5
    IN [db  |-> [d EXCEPT !.contacts = ReplaceRow(d.contacts, t6)],
        ret |-> RContact(t6)]

\* the query of delete_contact: the row item is bound to, or None
delete_contact_query(contact_id, user, d) ==
    LET Hit(c) == c.id = contact_id /\ c.user_id = user
    IN First(SelectSeq(d.contacts, Hit))

\* db.delete(item) and the commit, for the loaded row item
delete_contact_commit(item, d) ==
    [db  |-> [d EXCEPT !.contacts = DeleteRow(d.contacts, item)],
     ret |-> RContact(item)]

\* search_data falling through to the next criterion when one finds nothing
search_data_falls_back(user, d, name, lastname, email) ==
    LET ByName(c) == c.name = name /\ c.user_id = user
        ByLastname(c) == c.lastname = lastname /\ c.user_id = user
        ByEmail(c) == c.email = email /\ c.user_id = user
    IN IF Truthy(name) /\ SelectSeq(d.contacts, ByName) # <<>>
       THEN First(SelectSeq(d.contacts, ByName))
       ELSE IF Truthy(lastname) /\ SelectSeq(d.contacts, ByLastname) # <<>>
       THEN First(SelectSeq(d.contacts, ByLastname))
       ELSE IF Truthy(email) THEN First(SelectSeq(d.contacts, ByEmail))
       ELSE RNone

\* search_data with the owner left out of the filters
search_data_of_anyone(user, d, name, lastname, email) ==
    LET ByName(c) == c.name = name
        ByLastname(c) == c.lastname = lastname
        ByEmail(c) == c.email = email
    IN IF Truthy(name) THEN First(SelectSeq(d.contacts, ByName))
       ELSE IF Truthy(lastname) THEN First(SelectSeq(d.contacts, ByLastname))
       ELSE IF Truthy(email) THEN First(SelectSeq(d.contacts, ByEmail))
       ELSE RNone

\* search_data with the criteria tried from the email up
search_data_email_first(user, d, name, lastname, email) ==
    LET ByName(c) == c.name = name /\ c.user_id = user
        ByLastname(c) == c.lastname = lastname /\ c.user_id = user
        ByEmail(c) == c.email = email /\ c.user_id = user
    IN IF Truthy(email) THEN First(SelectSeq(d.contacts, ByEmail))
       ELSE IF Truthy(lastname) THEN First(SelectSeq(d.contacts, ByLastname))
       ELSE IF Truthy(name) THEN First(SelectSeq(d.contacts, ByName))
       ELSE RNone

search_data(user, d, name, lastname, email) ==
    LET ByName(c) == c.name = name /\ c.user_id = user
        ByLastname(c) == c.lastname = lastname /\ c.user_id = user
        ByEmail(c) == c.email = email /\ c.user_id = user
    IN IF Truthy(name) THEN First(SelectSeq(d.contacts, ByName))
       ELSE IF Truthy(lastname) THEN First(SelectSeq(d.contacts, ByLastname))
       ELSE IF Truthy(email) THEN First(SelectSeq(d.contacts, ByEmail))
       ELSE RNone

\* the number of days the window reaches past today
WindowDays == 6

\* the for loop of birthday_to_week from row i on; t is date.today()
RECURSIVE BirthdayLoop(_, _, _, _, _)
BirthdayLoop(users, i, happy_users, t, week) ==
    IF i > Len(users) THEN RList(happy_users)
    ELSE IF ~ValidDate(t.year, users[i].born_date.month, users[i].born_date.day)
    THEN RValueError
    ELSE LET bday == Date(t.year, users[i].born_date.month, users[i].born_date.day)
         IN BirthdayLoop(users, i + 1,
                         IF DateLE(t, bday) /\ DateLE(bday, week)
                         THEN Append(happy_users, users[i]) ELSE happy_users,
                         t, week)

birthday_to_week(user, d, t) ==
    LET Mine(c) == c.user_id = user
        users == SelectSeq(d.contacts, Mine)
    IN IF users = <<>> THEN RNone
       ELSE BirthdayLoop(users, 1, <<>>, t, AddDays(t, WindowDays))

-----------------------------------------------------------------------------
(* Inputs *)

\* ContactModel payloads the transport layer has validated
Bill ==
    [name |-> "Bill", lastname |-> "Fork", email |-> "fork_bill@gmail.com",
     phone |-> "3800502128506", born_date |-> Date(1990, 6, 3),
     description |-> "Just friend"]

Deira ==
    [name |-> "Deira", lastname |-> "Hadid", email |-> "dhadid@gmail.com",
     phone |-> "3800671234567", born_date |-> Date(1988, 1, 12),
     description |-> None]

Payloads == {Bill, Deira}

\* ids a caller may ask for: every id ever assigned and one never assigned
ContactIds == 1..(MaxContacts + 1)

\* arguments of update_contact: each absent (None), empty or a new value
UpdateArgs ==
    [name        : {None, "", "Brenda"},
     lastname    : {None, "", "Gerard"},
     email       : {None, "", "breger@gmail.com"},
     phone       : {None, "", "3800991112233"},
     born_date   : {None, "", "1990-06-10"},
     description : {None, "", "Just strange friend"}]

NoFields ==
    [name |-> None, lastname |-> None, email |-> None, phone |-> None,
     born_date |-> None, description |-> None]

AllFields ==
    [name |-> "Brenda", lastname |-> "Gerard", email |-> "breger@gmail.com",
     phone |-> "3800991112233", born_date |-> "1990-06-10",
     description |-> "Just strange friend"]

\* the updates issued while calls of all kinds interleave
SomeUpdateArgs ==
    {NoFields, AllFields,
     [NoFields EXCEPT !.name = ""],
     [NoFields EXCEPT !.description = "Just strange friend"]}

\* arguments of search_data
SearchArgs ==
    [name     : {None, "", "Bill", "Brenda"},
     lastname : {None, "", "Fork", "Gerard"},
     email    : {None, "", "fork_bill@gmail.com", "breger@gmail.com"}]

NoCriteria == [name |-> None, lastname |-> None, email |-> None]

\* the searches issued while calls of all kinds interleave
SomeSearchArgs ==
    {NoCriteria,
     [name |-> "Bill", lastname |-> "Gerard", email |-> "breger@gmail.com"],
     [NoCriteria EXCEPT !.lastname = "Fork"],
     [NoCriteria EXCEPT !.email = "dhadid@gmail.com"]}

-----------------------------------------------------------------------------
(* The repository calls *)

NoCall == [op |-> "none"]

\* the table before the first insert
NoStore == [contacts |-> <<>>, next_id |-> 1]

\* a session with no call in flight, whose last call returned r; crossed tells
\* whether the table was written between that call's query and its commit
Idle(r, crossed) ==
    [pc |-> "idle", contact_id |-> 0, args |-> NoFields, row |-> RNone,
     seen |-> NoStore, ret |-> r, crossed |-> crossed]

NoSessions == [u \in Users |-> Idle(RNone, FALSE)]

\* db, ret: the owner's calls alone, on a table of its own;
\* db_seq, ret_seq: the same with ids drawn from the one sequence of the table
NoRuns ==
    [u \in Users |-> [db |-> NoStore, ret |-> RNone,
                      db_seq |-> NoStore, ret_seq |-> RNone]]

Init ==
    /\ db = [contacts |-> <<>>, next_id |-> 1]
    /\ today = Date(2024, 6, 1)
    /\ call = NoCall
    /\ ret = RNone
    /\ session = NoSessions
    /\ alone = NoRuns

CreateContact ==
    \E user \in Users, contact \in Payloads :
        /\ db.next_id <= MaxContacts
        /\ LET r == create_contact(contact, user, db) IN
              /\ db' = r.db
              /\ ret' = r.ret
        /\ call' = [op |-> "create_contact", user |-> user, contact |-> contact]
        /\ UNCHANGED <<today, session, alone>>

GetContacts ==
    \E user \in Users :
        /\ ret' = get_contacts(user, db)
        /\ call' = [op |-> "get_contacts", user |-> user]
        /\ UNCHANGED <<db, today, session, alone>>

GetContact ==
    \E user \in Users, contact_id \in ContactIds :
        /\ ret' = get_contact(contact_id, user, db)
        /\ call' = [op |-> "get_contact", user |-> user, contact_id |-> contact_id]
        /\ UNCHANGED <<db, today, session, alone>>

UpdateContact(Args) ==
    \E user \in Users, contact_id \in ContactIds, a \in Args :
        /\ LET r == update_contact(contact_id, user, db, a.name, a.lastname,
                                   a.email, a.phone, a.born_date, a.description)
           IN /\ db' = r.db
              /\ ret' = r.ret
        /\ call' = [op |-> "update_contact", user |-> user,
                    contact_id |-> contact_id, args |-> a]
        /\ UNCHANGED <<today, session, alone>>

DeleteContact ==
    \E user \in Users, contact_id \in ContactIds :
        /\ LET r == delete_contact(contact_id, user, db) IN
              /\ db' = r.db
              /\ ret' = r.ret
        /\ call' = [op |-> "delete_contact", user |-> user, contact_id |-> contact_id]
        /\ UNCHANGED <<today, session, alone>>

SearchData(Args) ==
    \E user \in Users, a \in Args :
        /\ ret' = search_data(user, db, a.name, a.lastname, a.email)
        /\ call' = [op |-> "search_data", user |-> user, args |-> a]
        /\ UNCHANGED <<db, today, session, alone>>

BirthdayToWeek ==
    \E user \in Users :
        /\ ret' = birthday_to_week(user, db, today)
        /\ call' = [op |-> "birthday_to_week", user |-> user]
        /\ UNCHANGED <<db, today, session, alone>>

Next ==
    \/ CreateContact
    \/ GetContacts
    \/ GetContact
    \/ UpdateContact(SomeUpdateArgs)
    \/ DeleteContact
    \/ SearchData(SomeSearchArgs)
    \/ BirthdayToWeek

Spec == Init /\ [][Next]_vars

-----------------------------------------------------------------------------
(* Stores a run of creates and deletes leaves behind: rows with increasing *)
(* ids out of 1..MaxContacts, each a payload of Data bound to an owner     *)

RECURSIVE SortedSeq(_)
SortedSeq(S) ==
    IF S = {} THEN <<>>
    ELSE LET m == CHOOSE x \in S : \A y \in S : x <= y
         IN <<m>> \o SortedSeq(S \ {m})

Row(id, contact, user) ==
    [id          |-> id,
     name        |-> contact.name,
     lastname    |-> contact.lastname,
     email       |-> contact.email,
     phone       |-> contact.phone,
     born_date   |-> contact.born_date,
     description |-> contact.description,
     user_id     |-> user]

StoresOver(Data) ==
    UNION {
        { [contacts |-> LET ids == SortedSeq(S)
                        IN [i \in 1..Len(ids) |->
                               Row(ids[i], f[ids[i]].contact, f[ids[i]].user)],
           next_id  |-> MaxContacts + 1]
          : f \in [S -> [contact : Data, user : Users]] }
        : S \in SUBSET (1..MaxContacts) }

-----------------------------------------------------------------------------
(* update_contact applied once, with every combination of arguments *)

InitUpdate ==
    /\ db \in StoresOver(Payloads)
    /\ today = Date(2024, 6, 1)
    /\ call = NoCall
    /\ ret = RNone
    /\ session = NoSessions
    /\ alone = NoRuns

NextUpdate == call = NoCall /\ UpdateContact(UpdateArgs)

SpecUpdate == InitUpdate /\ [][NextUpdate]_vars

-----------------------------------------------------------------------------
(* search_data applied once, with every combination of criteria *)

SearchPayloads ==
    [name        : {"Bill", "Brenda"},
     lastname    : {"Fork", "Gerard"},
     email       : {"fork_bill@gmail.com", "breger@gmail.com"},
     phone       : {"3800502128506"},
     born_date   : {Date(1990, 6, 3)},
     description : {None}]

InitSearch ==
    /\ db \in StoresOver(SearchPayloads)
    /\ today = Date(2024, 6, 1)
    /\ call = NoCall
    /\ ret = RNone
    /\ session = NoSessions
    /\ alone = NoRuns

NextSearch == call = NoCall /\ SearchData(SearchArgs)

SpecSearch == InitSearch /\ [][NextSearch]_vars

-----------------------------------------------------------------------------
(* birthday_to_week applied once, on chosen days *)

\* values of date.today(): mid-year, ends of February in a common and in a
\* leap year, and the turn of the year
Todays ==
    {Date(2024, 6, 1),
     Date(2023, 2, 23), Date(2023, 2, 28), Date(2024, 2, 23), Date(2024, 2, 29),
     Date(2023, 12, 25), Date(2023, 12, 29), Date(2024, 1, 1)}

\* birthdays around those days
BornDates ==
    {Date(1990, 5, 31), Date(1990, 6, 1), Date(1990, 6, 3), Date(1990, 6, 7),
     Date(1990, 6, 8), Date(1990, 6, 10),
     Date(2000, 2, 22), Date(2000, 2, 29), Date(1990, 3, 1), Date(1990, 3, 2),
     Date(1990, 12, 24), Date(1990, 12, 31), Date(1990, 1, 1), Date(1990, 1, 4),
     Date(1990, 1, 5)}

BirthdayPayloads ==
    [name        : {"Bill"},
     lastname    : {"Fork"},
     email       : {"fork_bill@gmail.com"},
     phone       : {"3800502128506"},
     born_date   : BornDates,
     description : {None}]

InitBirthday ==
    /\ db \in StoresOver(BirthdayPayloads)
    /\ today \in Todays
    /\ call = NoCall
    /\ ret = RNone
    /\ session = NoSessions
    /\ alone = NoRuns

NextBirthday == call = NoCall /\ BirthdayToWeek

SpecBirthday == InitBirthday /\ [][NextBirthday]_vars

-----------------------------------------------------------------------------
(* Calls of the two owners in flight at once.  Each owner has one call at  *)
(* a time; update_contact and delete_contact take two steps, the query     *)
(* that loads the row and the commit that writes it, and the other owner's *)
(* steps may fall between them.  create_contact and get_contacts are one   *)
(* statement against the table each.                                       *)

\* the session of a call of kind op between its query and its commit
Pending(op, contact_id, a, row, r) ==
    [pc |-> op, contact_id |-> contact_id, args |-> a, row |-> row,
     seen |-> db, ret |-> r, crossed |-> FALSE]

\* the owner's runs alone after create_contact
AloneCreate(user, contact) ==
    LET o == create_contact(contact, user, alone[user].db)
        q == create_contact(contact, user,
                            [alone[user].db_seq EXCEPT !.next_id = db.next_id])
    IN [alone EXCEPT ![user] = [db |-> o.db, ret |-> o.ret,
                                db_seq |-> q.db, ret_seq |-> q.ret]]

\* the owner's runs alone after get_contacts
AloneGetContacts(user) ==
    [alone EXCEPT ![user].ret = get_contacts(user, alone[user].db),
                  ![user].ret_seq = get_contacts(user, alone[user].db_seq)]

\* the owner's runs alone after update_contact
AloneUpdate(user, contact_id, a) ==
    LET o == update_contact(contact_id, user, alone[user].db, a.name, a.lastname,
                            a.email, a.phone, a.born_date, a.description)
        q == update_contact(contact_id, user, alone[user].db_seq, a.name, a.lastname,
                            a.email, a.phone, a.born_date, a.description)
    IN [alone EXCEPT ![user] = [db |-> o.db, ret |-> o.ret,
                                db_seq |-> q.db, ret_seq |-> q.ret]]

\* the owner's runs alone after delete_contact
AloneDelete(user, contact_id) ==
    LET o == delete_contact(contact_id, user, alone[user].db)
        q == delete_contact(contact_id, user, alone[user].db_seq)
    IN [alone EXCEPT ![user] = [db |-> o.db, ret |-> o.ret,
                                db_seq |-> q.db, ret_seq |-> q.ret]]

InitInterleaved ==
    /\ db = NoStore
    /\ today = Date(2024, 6, 1)
    /\ call = NoCall
    /\ ret = RNone
    /\ session = NoSessions
    /\ alone = NoRuns

CreateStep ==
    \E user \in Users, contact \in Payloads :
        /\ session[user].pc = "idle"
        /\ db.next_id <= MaxContacts
        /\ LET r == create_contact(contact, user, db) IN
              /\ db' = r.db
              /\ session' = [session EXCEPT ![user] = Idle(r.ret, FALSE)]
        /\ alone' = AloneCreate(user, contact)
        /\ UNCHANGED <<today, call, ret>>

GetContactsStep ==
    \E user \in Users :
        /\ session[user].pc = "idle"
        /\ session' = [session EXCEPT ![user] = Idle(get_contacts(user, db), FALSE)]
        /\ alone' = AloneGetContacts(user)
        /\ UNCHANGED <<db, today, call, ret>>

UpdateQuery ==
    \E user \in Users, contact_id \in ContactIds, a \in SomeUpdateArgs :
        /\ session[user].pc = "idle"
        /\ LET target_contact == update_contact_query(contact_id, user, db) IN
              IF target_contact = RNone
              THEN /\ session' = [session EXCEPT ![user] = Idle(RNone, FALSE)]
                   /\ alone' = AloneUpdate(user, contact_id, a)
              ELSE /\ session' = [session EXCEPT ![user] =
                                     Pending("update_contact", contact_id, a,
                                             target_contact, session[user].ret)]
                   /\ alone' = alone
        /\ UNCHANGED <<db, today, call, ret>>

UpdateCommit ==
    \E user \in Users :
        /\ session[user].pc = "update_contact"
        /\ LET p == session[user]
               r == update_contact_commit(p.row.val, db, p.args.name, p.args.lastname,
                                          p.args.email, p.args.phone,
                                          p.args.born_date, p.args.description)
           IN /\ db' = r.db
              /\ session' = [session EXCEPT ![user] = Idle(r.ret, db # p.seen)]
              /\ alone' = AloneUpdate(user, p.contact_id, p.args)
        /\ UNCHANGED <<today, call, ret>>

DeleteQuery ==
    \E user \in Users, contact_id \in ContactIds :
        /\ session[user].pc = "idle"
        /\ LET item == delete_contact_query(contact_id, user, db) IN
              IF item = RNone
              THEN /\ session' = [session EXCEPT ![user] = Idle(RNone, FALSE)]
                   /\ alone' = AloneDelete(user, contact_id)
              ELSE /\ session' = [session EXCEPT ![user] =
                                     Pending("delete_contact", contact_id, NoFields,
                                             item, session[user].ret)]
                   /\ alone' = alone
        /\ UNCHANGED <<db, today, call, ret>>

DeleteCommit ==
    \E user \in Users :
        /\ session[user].pc = "delete_contact"
        /\ LET p == session[user]
               r == delete_contact_commit(p.row.val, db)
           IN /\ db' = r.db
              /\ session' = [session EXCEPT ![user] = Idle(r.ret, db # p.seen)]
              /\ alone' = AloneDelete(user, p.contact_id)
        /\ UNCHANGED <<today, call, ret>>

NextInterleaved ==
    \/ CreateStep
    \/ GetContactsStep
    \/ UpdateQuery
    \/ UpdateCommit
    \/ DeleteQuery
    \/ DeleteCommit

SpecInterleaved == InitInterleaved /\ [][NextInterleaved]_vars

-----------------------------------------------------------------------------
(* Properties *)

Rows == {db.contacts[i] : i \in 1..Len(db.contacts)}

\* the caller of the last call owns a row with the id it asked for
Owned(rows, user, contact_id) ==
    \E c \in rows : c.id = contact_id /\ c.user_id = user

\* C1: in every state, for every stored contact c and every user B other
\* than c's owner, get(B, c.id) is None while get(owner, c.id) is c; the
\* answer a caller got for another owner's id is the answer for an id that
\* was never assigned.
C1_OwnershipIsolation ==
    /\ \A c \in Rows :
          /\ get_contact(c.id, c.user_id, db) = RContact(c)
          /\ \A B \in Users \ {c.user_id} :
                /\ get_contact(c.id, B, db) = RNone
                /\ get_contact(c.id, B, db) = get_contact(MaxContacts + 1, B, db)
    /\ call.op = "get_contact" =>
          \/ ret = RNone /\ ~Owned(Rows, call.user, call.contact_id)
          \/ /\ ret.kind = "Contact"
             /\ ret.val \in Rows
             /\ ret.val.id = call.contact_id
             /\ ret.val.user_id = call.user

\* get of an id stored under the other owner came back None, after an update
C1_Witness ==
    /\ call.op = "get_contact"
    /\ ret = RNone
    /\ \E c \in Rows : c.id = call.contact_id /\ c.user_id # call.user
                       /\ c.name = "Brenda"

\* C2: an update or delete whose (id, caller) names no row -- the id was
\* never stored, or is stored under another owner -- returns None and
\* leaves the whole store as it was.
C2_NotFoundChangesNothing ==
    [][ (/\ call'.op \in {"update_contact", "delete_contact"}
         /\ ~Owned(Rows, call'.user, call'.contact_id))
        => (ret' = RNone /\ db' = db) ]_vars

\* an update with every field supplied, aimed at the other owner's contact,
\* came back None
C2_Witness ==
    /\ call.op = "update_contact"
    /\ call.args = AllFields
    /\ ret = RNone
    /\ \E c \in Rows : c.id = call.contact_id /\ c.user_id # call.user

\* the row of rows with this id (ids are unique)
RowOf(rows, contact_id) == CHOOSE c \in rows : c.id = contact_id

Fields == {"name", "lastname", "email", "phone", "born_date", "description"}

\* C3: create(owner, payload) returns a contact equal to the payload in all
\* six fields, bound to the owner, under an id that no stored contact has
\* and that was never assigned before; get(owner, that id) returns it.
C3_CreateThenGet ==
    [][ call'.op = "create_contact" =>
          /\ ret'.kind = "Contact"
          /\ \A f \in Fields : ret'.val[f] = call'.contact[f]
          /\ ret'.val.user_id = call'.user
          /\ ret'.val.id \notin Ids(db.contacts)
          /\ ret'.val.id >= db.next_id
          /\ \A c \in Rows : c.id < db.next_id
          /\ get_contact(ret'.val.id, call'.user, db') = ret' ]_vars

\* a payload was created under an id that an earlier, deleted contact did
\* not have, while another contact was stored
C3_Witness ==
    /\ call.op = "create_contact"
    /\ call.contact = Deira
    /\ ret.kind = "Contact"
    /\ ret.val.id = 2
    /\ Len(db.contacts) = 1

\* the value of field f that the arguments a supply, as the column stores it
Supplied(a, f) == IF f = "born_date" THEN StrToDate(a[f]) ELSE a[f]

\* C4: an update of a contact of the caller leaves every field unchanged
\* whose argument is absent (None) or the empty string; so no field that
\* held a non-empty value holds an empty one afterwards.
C4_FalsyLeavesField ==
    [][ (/\ call'.op = "update_contact"
         /\ Owned(Rows, call'.user, call'.contact_id))
        => LET old == RowOf(Rows, call'.contact_id)
               new == ret'.val
           IN /\ ret'.kind = "Contact"
              /\ \A f \in Fields :
                    call'.args[f] \in {None, ""} => new[f] = old[f]
              /\ \A f \in Fields \ {"born_date"} :
                    new[f] \in {None, ""} => new[f] = old[f]
              /\ call'.args = NoFields => db' = db ]_vars

\* an update with name = "" and all else absent found the contact and left
\* it as it was
C4_Witness ==
    /\ call.op = "update_contact"
    /\ call.args = [NoFields EXCEPT !.name = ""]
    /\ ret.kind = "Contact"
    /\ ret.val.name = "Bill"
    /\ ret.val \in Rows

\* C5: an update of a contact of the caller sets each of the six fields to
\* the supplied value exactly when it is present and non-empty, keeps id and
\* owner, changes no other row, persists the row and returns it: get(owner,
\* id) afterwards returns the same contact.
C5_UpdateMerges ==
    [][ (/\ call'.op = "update_contact"
         /\ Owned(Rows, call'.user, call'.contact_id))
        => LET old == RowOf(Rows, call'.contact_id)
               new == ret'.val
               a == call'.args
           IN /\ ret'.kind = "Contact"
              /\ \A f \in Fields :
                    new[f] = IF a[f] # None /\ a[f] # ""
                             THEN Supplied(a, f) ELSE old[f]
              /\ new.id = old.id
              /\ new.user_id = old.user_id
              /\ Len(db'.contacts) = Len(db.contacts)
              /\ \A i \in 1..Len(db.contacts) :
                    db'.contacts[i] = IF db.contacts[i].id = old.id
                                      THEN new ELSE db.contacts[i]
              /\ db'.next_id = db.next_id
              /\ get_contact(call'.contact_id, call'.user, db') = ret' ]_vars

\* an update supplying some fields and leaving others empty or absent
\* changed one contact of a store of two
C5_Witness ==
    /\ call.op = "update_contact"
    /\ call.args = [NoFields EXCEPT !.lastname = "Gerard", !.phone = "",
                                    !.born_date = "1990-06-10"]
    /\ ret.kind = "Contact"
    /\ ret.val.lastname = "Gerard"
    /\ ret.val.name = "Deira"
    /\ ret.val.born_date = Date(1990, 6, 10)
    /\ Len(db.contacts) = 2

\* C6: a delete of a contact of the caller removes exactly that row, returns
\* the contact that was deleted and leaves every other row as it was, in
\* order; afterwards get and a second delete of that id return None.
C6_DeleteRemoves ==
    [][ (/\ call'.op = "delete_contact"
         /\ Owned(Rows, call'.user, call'.contact_id))
        => LET old == RowOf(Rows, call'.contact_id)
               Others(c) == c # old
           IN /\ ret' = RContact(old)
              /\ db'.contacts = SelectSeq(db.contacts, Others)
              /\ Len(db'.contacts) = Len(db.contacts) - 1
              /\ db'.next_id = db.next_id
              /\ get_contact(call'.contact_id, call'.user, db') = RNone
              /\ delete_contact(call'.contact_id, call'.user, db')
                    = [db |-> db', ret |-> RNone] ]_vars

\* a delete returned the contact and left the caller's other contact stored
C6_Witness ==
    /\ call.op = "delete_contact"
    /\ ret.kind = "Contact"
    /\ ret.val.id = 1
    /\ Len(db.contacts) = 1
    /\ db.contacts[1].user_id = call.user

\* the same delete asked again came back None
C6_WitnessAgain ==
    /\ call.op = "delete_contact"
    /\ ret = RNone
    /\ call.contact_id \notin Ids(db.contacts)
    /\ call.contact_id < db.next_id

\* the first row of the table that user owns and that has this name, or None
FirstNamed(user, name) ==
    LET hits == {i \in 1..Len(db.contacts) :
                    db.contacts[i].user_id = user /\ db.contacts[i].name = name}
    IN IF hits = {} THEN RNone
       ELSE RContact(db.contacts[CHOOSE i \in hits : \A j \in hits : i <= j])

\* C7: a search with a non-empty name returns the first contact of the
\* caller with that name, whatever lastname and email were supplied and
\* whether or not they match that contact.
C7_NameTakesPriority ==
    (call.op = "search_data" /\ call.args.name \notin {None, ""})
        => ret = FirstNamed(call.user, call.args.name)

\* a search by name with a lastname and an email that the contact does not
\* have returned the contact, the first of two of that name
C7_Witness ==
    /\ call.op = "search_data"
    /\ call.args = [name |-> "Bill", lastname |-> "Gerard",
                    email |-> "breger@gmail.com"]
    /\ ret.kind = "Contact"
    /\ ret.val.lastname = "Fork"
    /\ ret.val.email = "fork_bill@gmail.com"
    /\ \E c \in Rows : /\ c.id > ret.val.id
                       /\ c.name = "Bill"
                       /\ c.user_id = call.user
                       /\ c.lastname = "Gerard"

\* the rows user owns
RowsOf(user) == {c \in Rows : c.user_id = user}

\* month and day of c's birth are those of one of the seven calendar days
\* t, t + 1, ..., t + 6
BirthdayWithin(c, t) ==
    \E k \in 0..WindowDays :
        /\ AddDays(t, k).month = c.born_date.month
        /\ AddDays(t, k).day = c.born_date.day

\* C8: birthdayWindow returns None exactly when the owner has no contacts;
\* with contacts of which none has its birthday in the window it returns
\* the empty sequence.
C8_NoneOnlyWithoutContacts ==
    call.op = "birthday_to_week" =>
        /\ ret = RNone <=> RowsOf(call.user) = {}
        /\ (/\ RowsOf(call.user) # {}
            /\ \A c \in RowsOf(call.user) : ~BirthdayWithin(c, today))
           => ret = RList(<<>>)

\* C9: for every today and every owner with contacts, birthdayWindow holds
\* exactly the owner's contacts whose month and day of birth are those of
\* one of the days today .. today + 6, also across the turn of the year.
C9_SevenCalendarDays ==
    (call.op = "birthday_to_week" /\ RowsOf(call.user) # {}) =>
        /\ ret.kind = "list"
        /\ \A c \in RowsOf(call.user) :
              (\E i \in 1..Len(ret.val) : ret.val[i] = c)
                  <=> BirthdayWithin(c, today)

\* C10: in every state, list(owner) is a sequence -- never None -- holding
\* each row of the owner exactly once and no other row, in insertion order
\* (ascending id); a list call returned just that.
C10_ListIsOwnersRows ==
    /\ \A user \in Users :
          LET r == get_contacts(user, db) IN
          /\ r.kind = "list"
          /\ \A i \in 1..Len(r.val) : r.val[i] \in RowsOf(user)
          /\ \A c \in RowsOf(user) :
                Cardinality({i \in 1..Len(r.val) : r.val[i] = c}) = 1
          /\ \A i, j \in 1..Len(r.val) : i < j => r.val[i].id < r.val[j].id
          /\ RowsOf(user) = {} => r = RList(<<>>)
    /\ call.op = "get_contacts" => ret = get_contacts(call.user, db)

\* a list call returned the caller's one contact, updated before, out of a
\* table that also holds the other owner's
C10_Witness ==
    /\ call.op = "get_contacts"
    /\ Len(db.contacts) = 2
    /\ Len(ret.val) = 1
    /\ ret.val[1].id = 2
    /\ ret.val[1].name = "Brenda"

\* a list call of an owner without contacts returned the empty sequence
\* while the other owner had contacts
C10_WitnessEmpty ==
    /\ call.op = "get_contacts"
    /\ ret = RList(<<>>)
    /\ Len(db.contacts) = 2

\* the first row of the table that user owns and whose field f is v, or None
FirstWith(user, f, v) ==
    LET hits == {i \in 1..Len(db.contacts) :
                    db.contacts[i].user_id = user /\ db.contacts[i][f] = v}
    IN IF hits = {} THEN RNone
       ELSE RContact(db.contacts[CHOOSE i \in hits : \A j \in hits : i <= j])

\* C11: a search applies one criterion only, the first of name, lastname,
\* email that is supplied non-empty, and never falls back: when no contact
\* of the caller matches it the result is None even if a later supplied
\* criterion would match; with none supplied the result is None.
C11_OneCriterionNoFallback ==
    call.op = "search_data" =>
        LET a == call.args IN
        ret = IF a.name \notin {None, ""} THEN FirstWith(call.user, "name", a.name)
              ELSE IF a.lastname \notin {None, ""}
              THEN FirstWith(call.user, "lastname", a.lastname)
              ELSE IF a.email \notin {None, ""}
              THEN FirstWith(call.user, "email", a.email)
              ELSE RNone

\* a search by a name the caller has no contact of came back None although
\* the lastname and the email supplied with it are those of a contact of
\* the caller
C11_Witness ==
    /\ call.op = "search_data"
    /\ call.args = [name |-> "Brenda", lastname |-> "Fork",
                    email |-> "fork_bill@gmail.com"]
    /\ ret = RNone
    /\ \E c \in Rows : /\ c.user_id = call.user
                       /\ c.lastname = "Fork"
                       /\ c.email = "fork_bill@gmail.com"

\* a search with every criterion absent or empty came back None from a
\* table with contacts of the caller
C11_WitnessNoCriteria ==
    /\ call.op = "search_data"
    /\ call.args = [name |-> "", lastname |-> None, email |-> ""]
    /\ ret = RNone
    /\ \E c \in Rows : c.user_id = call.user

\* the table with only the rows of user in it
OnlyRowsOf(user, d) ==
    LET Mine(c) == c.user_id = user
    IN [d EXCEPT !.contacts = SelectSeq(d.contacts, Mine)]

\* C12: in every state, for every caller and all criteria, what search and
\* birthdayWindow return is made of the caller's contacts only and is what
\* they return from the table without the other owners' rows: a match under
\* another owner gives None, another owner's birthdays neither appear nor
\* turn None into a sequence.
C12_ScopedToOwner ==
    /\ \A user \in Users :
          /\ \A a \in SearchArgs :
                LET r == search_data(user, db, a.name, a.lastname, a.email) IN
                /\ r = search_data(user, OnlyRowsOf(user, db),
                                   a.name, a.lastname, a.email)
                /\ r.kind = "Contact" => r.val.user_id = user
          /\ LET b == birthday_to_week(user, db, today) IN
                /\ b = birthday_to_week(user, OnlyRowsOf(user, db), today)
                /\ b.kind = "list" =>
                      \A i \in 1..Len(b.val) : b.val[i].user_id = user
    /\ call.op = "search_data" =>
          /\ ret = search_data(call.user, OnlyRowsOf(call.user, db),
                               call.args.name, call.args.lastname, call.args.email)
          /\ ret.kind = "Contact" => ret.val.user_id = call.user
    /\ call.op = "birthday_to_week" =>
          /\ ret = birthday_to_week(call.user, OnlyRowsOf(call.user, db), today)
          /\ ret.kind = "list" =>
                \A i \in 1..Len(ret.val) : ret.val[i].user_id = call.user

\* a search by name came back None although the other owner has a contact
\* of that name
C12_Witness ==
    /\ call.op = "search_data"
    /\ call.args.name = "Bill"
    /\ ret = RNone
    /\ \E c \in Rows : c.name = "Bill" /\ c.user_id # call.user

\* birthdayWindow gave the empty sequence to a caller with a contact out of
\* the window while the other owner has one in it, and None to a caller
\* without contacts while the other owner has one in it
C12_WitnessBirthday ==
    /\ call.op = "birthday_to_week"
    /\ \/ ret = RList(<<>>) /\ RowsOf(call.user) # {}
       \/ ret = RNone
    /\ \E c \in Rows : c.user_id # call.user /\ BirthdayWithin(c, today)

\* the number of the day (y, m, d) within year y
RECURSIVE DayOfYear(_, _, _)
DayOfYear(y, m, d) == IF m = 1 THEN d ELSE DaysInMonth(y, m - 1) + DayOfYear(y, m - 1, d)

\* the day (year of t, month of born_date, day of born_date) exists and lies
\* in t .. t + 6 days, both ends included
ThisYearsBirthdayWithin(c, t) ==
    /\ c.born_date.day <= DaysInMonth(t.year, c.born_date.month)
    /\ DayOfYear(t.year, c.born_date.month, c.born_date.day)
          >= DayOfYear(t.year, t.month, t.day)
    /\ DayOfYear(t.year, c.born_date.month, c.born_date.day)
          <= DayOfYear(t.year, t.month, t.day) + WindowDays

\* C13: for an owner with contacts, birthdayWindow returns, in table order,
\* exactly the owner's contacts whose birthday of the current year d
\* satisfies today <= d <= today + 6 days.
C13_WindowOfThisYear ==
    (call.op = "birthday_to_week" /\ RowsOf(call.user) # {}) =>
        LET InWindow(c) == c.user_id = call.user /\ ThisYearsBirthdayWithin(c, today)
        IN ret = RList(SelectSeq(db.contacts, InWindow))

\* the year is a common year and the caller has a contact born on February 29
FaultCase ==
    /\ call.op = "birthday_to_week"
    /\ ~IsLeap(today.year)
    /\ \E c \in RowsOf(call.user) : c.born_date.month = 2 /\ c.born_date.day = 29

\* C14: in a common year, for an owner with a contact born on February 29,
\* birthdayWindow faults while re-anchoring: it returns neither None nor a
\* sequence, whatever other contacts of the owner are in the window.
C14_FaultOnFebruary29 ==
    FaultCase => (ret = RValueError /\ ret # RNone /\ ret.kind # "list")

\* the call faulted although another contact of the caller has its birthday
\* in the window
C14_Witness ==
    /\ FaultCase
    /\ ret = RValueError
    /\ \E c \in RowsOf(call.user) : ThisYearsBirthdayWithin(c, today)

\* no two rows of the table d have the same id, and each has an owner
DistinctIds(d) ==
    /\ Cardinality(Ids(d.contacts)) = Len(d.contacts)
    /\ \A i \in 1..Len(d.contacts) : d.contacts[i].user_id \in Users

\* C15: in every state ids are pairwise distinct and each contact has one
\* owner; over every step a contact that stays keeps its id and its owner,
\* an id once assigned is never assigned again, and an update writes the six
\* data fields only.
C15_IdAndOwnerFixed ==
    [][ /\ DistinctIds(db)
        /\ DistinctIds(db')
        /\ \A c \in Rows :
              \A i \in 1..Len(db'.contacts) :
                  db'.contacts[i].id = c.id => db'.contacts[i].user_id = c.user_id
        /\ \A i \in 1..Len(db'.contacts) :
              db'.contacts[i].id \notin Ids(db.contacts)
                  => db'.contacts[i].id >= db.next_id
        /\ \A c \in Rows : c.id < db.next_id
        /\ db'.next_id >= db.next_id
        /\ call'.op = "update_contact" =>
              /\ Len(db'.contacts) = Len(db.contacts)
              /\ \A i \in 1..Len(db.contacts) :
                    /\ db'.contacts[i].id = db.contacts[i].id
                    /\ db'.contacts[i].user_id = db.contacts[i].user_id ]_vars

\* after a delete and a second create, an update with every field supplied
\* rewrote a contact that kept its id and owner, beside the other owner's
C15_Witness ==
    /\ call.op = "update_contact"
    /\ call.args = AllFields
    /\ ret.kind = "Contact"
    /\ ret.val.id = 2
    /\ ret.val.user_id = call.user
    /\ ret.val.name = "Brenda"
    /\ Ids(db.contacts) = {2}
    /\ db.next_id = 3

\* the rows of user in the table d, with their ids
RowsIn(user, d) == OnlyRowsOf(user, d).contacts

\* C16, as first stated: whatever the interleaving, each owner's contacts and
\* last result are those of the owner's calls run alone on a table of its own.
C16_SameAsAlone ==
    \A u \in Users :
        /\ RowsIn(u, db) = RowsIn(u, alone[u].db)
        /\ session[u].ret = alone[u].ret

\* C16: whatever the interleaving of queries and commits, each owner's
\* contacts and last result are those of the owner's calls run alone, the ids
\* of created contacts being drawn from the one sequence of the table; and a
\* step that is not the owner's leaves the owner's rows as they were.
C16_SameAsAloneButIds ==
    /\ [](\A u \in Users :
             /\ RowsIn(u, db) = RowsIn(u, alone[u].db_seq)
             /\ session[u].ret = alone[u].ret_seq)
    /\ [][\A u \in Users :
             session'[u] = session[u] => RowsIn(u, db') = RowsIn(u, db)]_vars

\* an update returned its rewritten contact after the other owner wrote the
\* table between the update's query and its commit
C16_Witness ==
    \E u \in Users :
        /\ session[u].pc = "idle"
        /\ session[u].crossed
        /\ session[u].ret.kind = "Contact"
        /\ session[u].ret.val.name = "Brenda"
        /\ session[u].ret.val \in Rows
        /\ \E c \in Rows : c.user_id # u

====
